---- MODULE Spec2Model ----
(***************************************************************************)
(* The flashcard generation orchestrator (services/ai_service.py,          *)
(* AIServiceAdvanced.generate_flashcards) and the POST /flashcards/generate*)
(* handler (main.py) as a state machine.                                   *)
(*                                                                         *)
(* A Python str is a sequence of chunks (TLA+ strings) whose concatenation *)
(* is the str.  Text that the code inspects (exception messages) is kept   *)
(* one character per chunk, so lower() and the `in` substring test are     *)
(* computed as the code computes them.                                     *)
(***************************************************************************)
EXTENDS Integers, Sequences, FiniteSets, TLC

\* ------------------------------------------------------------------ bounds

\* The LLM capability returns lists of at most this many flashcards.
MaxListLen == 3

\* No call of generate_flashcards is followed beyond this many LLM
\* invocations (the code makes at most max_retries + 1 = 3 of them).
MaxCalls == 4

\* ------------------------------------------------------- program constants

max_retries == 2
TimeoutMs == 30000
LastAttemptQuantity == 5
DegradeFloor == 3
GenericBackoffMs == 1000
TokenBackoffMs == 500
QuantityGe == 1
QuantityLe == 20

provider == "openai"
model_name == "gpt-3.5-turbo"

\* ------------------------------------------------------------------ helpers

Max(a, b) == IF a >= b THEN a ELSE b
Min(a, b) == IF a <= b THEN a ELSE b

UpperCase ==
    <<"A","B","C","D","E","F","G","H","I","J","K","L","M",
      "N","O","P","Q","R","S","T","U","V","W","X","Y","Z">>
LowerCase ==
    <<"a","b","c","d","e","f","g","h","i","j","k","l","m",
      "n","o","p","q","r","s","t","u","v","w","x","y","z">>

\* str.lower() on one character.
LowerChar(c) ==
    IF \E i \in 1..26 : UpperCase[i] = c
    THEN LowerCase[CHOOSE i \in 1..26 : UpperCase[i] = c]
    ELSE c

\* str.lower()
Lower(s) == [i \in 1..Len(s) |-> LowerChar(s[i])]

\* sub in s
Contains(s, sub) ==
    \E i \in 1..(Len(s) - Len(sub) + 1) : SubSeq(s, i, i + Len(sub) - 1) = sub

\* str(n) of a small natural number
Digits == <<"0","1","2","3","4","5","6","7","8","9">>
RECURSIVE IntStr(_)
IntStr(n) == IF n < 10 THEN <<Digits[n + 1]>> ELSE IntStr(n \div 10) \o <<Digits[(n % 10) + 1]>>

\* --------------------------------------------------------- the environment

\* MAX_FLASHCARDS_PER_REQUEST and MIN_FLASHCARDS_PER_REQUEST are read from the
\* environment at construction (defaults 15 and 1).
MaxFlashcardsValues == {2, 15}
MinFlashcardsValues == {1, 6}

\* Quantities a caller passes: the request model's range and values around it.
Quantities == {0, 1, 4, 7, 12, 20, 100}

\* FlashcardAI objects the LLM capability may put in its list.
Cards ==
    { [front |-> "Q1", difficulty |-> "beginner"],
      [front |-> "Q2", difficulty |-> "fácil"] }

CardLists == UNION { [1..n -> Cards] : n \in 0..MaxListLen }

\* What chain.ainvoke may return: None, an object without a flashcards
\* attribute, or a FlashcardsGeneration with a list.
NoneResponse == [is_none |-> TRUE, has_flashcards |-> FALSE, flashcards |-> <<>>]
NoAttrResponse == [is_none |-> FALSE, has_flashcards |-> FALSE, flashcards |-> <<>>]
LLMResponses ==
    {NoneResponse, NoAttrResponse}
        \cup { [is_none |-> FALSE, has_flashcards |-> TRUE, flashcards |-> l] : l \in CardLists }

\* str(e) of the exceptions chain.ainvoke may raise.
MsgLengthLimit == <<"L","e","n","g","t","h"," ","l","i","m","i","t">>
MsgTokens == <<"m","a","x"," ","T","O","K","E","N","S">>
MsgRate == <<"r","a","t","e"," ","l","i","m","i","t">>
ErrorMessages == {MsgLengthLimit, MsgTokens, MsgRate}

\* Milliseconds an LLM call that does not time out may take.
CallDurations == {0, 1200}

\* -------------------------------------------------------------------- state

VARIABLES
    max_flashcards,     \* self.max_flashcards
    min_flashcards,     \* self.min_flashcards
    structured_llm,     \* whether self.structured_llm is truthy
    pc,                 \* "idle", "calling", "sleeping", "returned", "responded"
    caller,             \* "endpoint" (main.py) or "direct"
    original_quantity,  \* generate_flashcards: original_quantity
    quantity,           \* generate_flashcards: quantity
    attempt,            \* generate_flashcards: attempt
    start_time,         \* generate_flashcards: start_time (ms)
    now,                \* datetime.now() (ms)
    sleep_ms,           \* the asyncio.sleep in progress (ms)
    prompts,            \* the quantity put in the prompt of each LLM invocation
    outcomes,           \* what each LLM invocation did
    waits,              \* the sleeps completed, in order (ms)
    result,             \* the dict generate_flashcards returned
    http,               \* the handler's response
    request,            \* a FlashcardAdvancedGenerationRequest being validated
    pdf,                \* a call of _load_pdf_content and its temporary file
    cancelled,          \* the task running generate_flashcards was cancelled
    focused             \* a call of generate_difficulty_focused

vars ==
    <<max_flashcards, min_flashcards, structured_llm, pc, caller,
      original_quantity, quantity, attempt, start_time, now, sleep_ms,
      prompts, outcomes, waits, result, http, request, pdf, cancelled,
      focused>>

\* What the orchestrator and the handler leave alone.
others == <<request, pdf, cancelled, focused>>

config == <<max_flashcards, min_flashcards, structured_llm>>

NoDict == [k \in {} |-> 0]

\* No request model is being validated; no PDF is being loaded.
NoRequest == [pc |-> "none"]
NoPdf == [pc |-> "none"]

\* generate_difficulty_focused has not been called.
NoFocused == [pc |-> "none"]

\* The orchestrator before any call.
OrchestratorIdle ==
    /\ pc = "idle"
    /\ caller = "none"
    /\ original_quantity = 0
    /\ quantity = 0
    /\ attempt = 0
    /\ start_time = 0
    /\ now = 0
    /\ sleep_ms = 0
    /\ prompts = <<>>
    /\ outcomes = <<>>
    /\ waits = <<>>
    /\ result = NoDict
    /\ http = NoDict
    /\ cancelled = FALSE

Init ==
    /\ max_flashcards \in MaxFlashcardsValues
    /\ min_flashcards \in MinFlashcardsValues
    /\ structured_llm \in BOOLEAN
    /\ OrchestratorIdle
    /\ request = NoRequest
    /\ pdf = NoPdf
    /\ focused = NoFocused

\* ------------------------------------------------- generate_flashcards: parts

\* Mutant: only the upper limit applied.
ClampUpperOnly(q, lo, hi) == Min(q, hi)

\* quantity = max(self.min_flashcards, min(quantity, self.max_flashcards))
Clamp(q, lo, hi) == Max(lo, Min(q, hi))

\* Mutant: the cap applied on every attempt.
CapEveryAttempt(a, q) ==
    IF q > LastAttemptQuantity THEN Min(LastAttemptQuantity, q) ELSE q

\* if attempt == max_retries and quantity > 5: quantity = min(5, quantity)
LastAttemptCap(a, q) ==
    IF a = max_retries /\ q > LastAttemptQuantity THEN Min(LastAttemptQuantity, q) ELSE q

\* Mutant: halving without the floor.
DegradeNoFloor(q) == q \div 2

\* quantity = max(3, quantity // 2)
Degrade(q) == Max(DegradeFloor, q \div 2)

\* "length limit" in error_msg.lower() or "token" in error_msg.lower()
IsTokenLimit(msg) ==
    \/ Contains(Lower(msg), <<"l","e","n","g","t","h"," ","l","i","m","i","t">>)
    \/ Contains(Lower(msg), <<"t","o","k","e","n">>)

\* if quantity > 3 and attempt < max_retries (under the token-limit test)
ShouldDegrade(msg, q, a) == IsTokenLimit(msg) /\ q > DegradeFloor /\ a < max_retries

\* if attempt < max_retries
CanRetry(a) == a < max_retries

\* Mutant: the empty list is not tested.
IsInvalidResultNoEmptyTest(r) == r.is_none \/ ~r.has_flashcards

\* not result or not hasattr(result, 'flashcards') or not result.flashcards
IsInvalidResult(r) == r.is_none \/ ~r.has_flashcards \/ r.flashcards = <<>>

\* str(ValueError("Resultado vazio ou inválido"))
EmptyResultMessage ==
    <<"R","e","s","u","l","t","a","d","o"," ","v","a","z","i","o"," ",
      "o","u"," ","i","n","v","á","l","i","d","o">>

\* Mutant: the subtraction the wrong way round.
ElapsedMsSwapped(t, t0) == t0 - t

\* int((datetime.now() - start_time).total_seconds() * 1000), the clock read at t
ElapsedMs(t, t0) == t - t0

\* Mutant: a retry that does not advance the attempt counter.
RangeNextStuck(a) == a

\* the next value of `for attempt in range(max_retries + 1)`
RangeNext(a) == a + 1

NotConfiguredResult ==
    [success |-> FALSE,
     error |-> <<"Serviço de IA não configurado corretamente">>,
     flashcards |-> <<>>,
     generation_time_ms |-> 0]

\* Mutant: attempts_made reports the loop index.
SuccessResultLoopIndex(cards, a, ms, oq) ==
    [success |-> TRUE,
     flashcards |-> cards,
     generation_time_ms |-> ms,
     model_used |-> <<provider, "/", model_name>>,
     attempts_made |-> a,
     quantity_requested |-> oq,
     quantity_generated |-> Len(cards)]

\* Mutant: the list cut to the quantity requested.
SuccessResultTruncated(cards, a, ms, oq) ==
    [success |-> TRUE,
     flashcards |-> SubSeq(cards, 1, Min(Len(cards), Max(oq, 1))),
     generation_time_ms |-> ms,
     model_used |-> <<provider, "/", model_name>>,
     attempts_made |-> a + 1,
     quantity_requested |-> oq,
     quantity_generated |-> Min(Len(cards), Max(oq, 1))]

SuccessResult(cards, a, ms, oq) ==
    [success |-> TRUE,
     flashcards |-> cards,
     generation_time_ms |-> ms,
     model_used |-> <<provider, "/", model_name>>,
     attempts_made |-> a + 1,
     quantity_requested |-> oq,
     quantity_generated |-> Len(cards)]

ExhaustedResult(msg, a, ms) ==
    [success |-> FALSE,
     error |-> <<"Falha após ">> \o IntStr(max_retries + 1) \o <<" tentativas: ">> \o msg,
     flashcards |-> <<>>,
     generation_time_ms |-> ms,
     attempts_made |-> a + 1]

FallbackResult ==
    [success |-> FALSE,
     error |-> <<"Erro inesperado no sistema de retry">>,
     flashcards |-> <<>>,
     generation_time_ms |-> 0]

\* ------------------------------------------ generate_flashcards: control flow
\* Each of these sets pc, sleep_ms, quantity, attempt, prompts and result.

\* return <dict>
Return(r) ==
    /\ pc' = "returned"
    /\ result' = r
    /\ sleep_ms' = 0
    /\ UNCHANGED <<quantity, attempt, prompts>>

\* await asyncio.sleep(ms); continue
Sleep(ms, q) ==
    /\ pc' = "sleeping"
    /\ sleep_ms' = ms
    /\ quantity' = q
    /\ UNCHANGED <<attempt, prompts, result>>

\* The head of one iteration, up to the await of chain.ainvoke.
BeginAttempt(a, q) ==
    /\ Len(prompts) < MaxCalls
    /\ pc' = "calling"
    /\ attempt' = a
    /\ quantity' = LastAttemptCap(a, q)
    /\ prompts' = Append(prompts, LastAttemptCap(a, q))
    /\ sleep_ms' = 0
    /\ UNCHANGED result

\* Mutant: the loop runs over range(max_retries + 2).
LoopNextOneMore ==
    IF RangeNext(attempt) <= max_retries + 1
    THEN BeginAttempt(RangeNext(attempt), quantity)
    ELSE Return(FallbackResult)

\* The for statement takes its next value, or the loop ends and the final
\* return after it runs.
LoopNext ==
    IF RangeNext(attempt) <= max_retries
    THEN BeginAttempt(RangeNext(attempt), quantity)
    ELSE Return(FallbackResult)

\* except asyncio.TimeoutError
\* Mutant: a timeout halves the quantity as a token-limit error does.
HandleTimeoutDegrades ==
    IF CanRetry(attempt)
    THEN Sleep(GenericBackoffMs, Degrade(quantity))
    ELSE LoopNext

HandleTimeout ==
    IF CanRetry(attempt)
    THEN Sleep(GenericBackoffMs, quantity)
    ELSE LoopNext

\* Mutant: the sleep after a reduction is as long as the other one.
HandleExceptionSameBackoff(msg, t) ==
    IF ShouldDegrade(msg, quantity, attempt)
    THEN Sleep(GenericBackoffMs, Degrade(quantity))
    ELSE IF CanRetry(attempt)
         THEN Sleep(GenericBackoffMs, quantity)
         ELSE Return(ExhaustedResult(msg, attempt, ElapsedMs(t, start_time)))

\* except Exception as e, with error_msg = str(e), the clock reading t
HandleException(msg, t) ==
    IF ShouldDegrade(msg, quantity, attempt)
    THEN Sleep(TokenBackoffMs, Degrade(quantity))
    ELSE IF CanRetry(attempt)
         THEN Sleep(GenericBackoffMs, quantity)
         ELSE Return(ExhaustedResult(msg, attempt, ElapsedMs(t, start_time)))

\* The body after the await returned r, the clock reading t
HandleResponse(r, t) ==
    IF IsInvalidResult(r)
    THEN HandleException(EmptyResultMessage, t)
    ELSE Return(SuccessResult(r.flashcards, attempt, ElapsedMs(t, start_time),
                              original_quantity))

\* generate_flashcards up to its first await, or its first return
EnterService(c, q) ==
    /\ pc = "idle"
    /\ caller' = c
    /\ start_time' = now
    /\ original_quantity' = q
    /\ IF ~structured_llm
       THEN Return(NotConfiguredResult)
       ELSE BeginAttempt(0, Clamp(q, min_flashcards, max_flashcards))
    /\ UNCHANGED <<config, now, outcomes, waits, http, others>>

\* ------------------------------------------------------- main.py: the handler

\* The values of the DifficultyLevel enumeration.
DifficultyLevel == {"beginner", "intermediate", "advanced"}

\* FlashcardAdvanced(front=..., difficulty=DifficultyLevel(ai_flashcard.difficulty), ...)
MapCard(c) == [front |-> c.front, difficulty |-> c.difficulty]

\* The index of the first flashcard whose conversion raises, 0 when none does.
FirstUnmappable(cards) ==
    IF \E i \in 1..Len(cards) : cards[i].difficulty \notin DifficultyLevel
    THEN CHOOSE i \in 1..Len(cards) :
            /\ cards[i].difficulty \notin DifficultyLevel
            /\ \A j \in 1..(i - 1) : cards[j].difficulty \in DifficultyLevel
    ELSE 0

\* Mutant: the conversion loop stops at the flashcard that raises and the
\* handler answers with the flashcards converted so far.
HandlerResponsePartial(r) ==
    IF ~r.success
    THEN [status |-> 500, detail |-> <<"Erro na geração: ">> \o r.error]
    ELSE LET n == IF FirstUnmappable(r.flashcards) # 0
                  THEN FirstUnmappable(r.flashcards) - 1
                  ELSE Len(r.flashcards)
         IN  [status |-> 200,
              total_generated |-> n,
              flashcards |-> [i \in 1..n |-> MapCard(r.flashcards[i])],
              generation_time_ms |-> r.generation_time_ms]

\* What the handler answers once ai_service.generate_flashcards returned r.
HandlerResponse(r) ==
    IF ~r.success
    THEN [status |-> 500, detail |-> <<"Erro na geração: ">> \o r.error]
    ELSE IF FirstUnmappable(r.flashcards) # 0
         THEN [status |-> 500,
               detail |-> <<"Erro interno do servidor: ", "'",
                            r.flashcards[FirstUnmappable(r.flashcards)].difficulty,
                            "' is not a valid DifficultyLevel">>]
         ELSE [status |-> 200,
               total_generated |-> Len(r.flashcards),
               flashcards |-> [i \in 1..Len(r.flashcards) |-> MapCard(r.flashcards[i])],
               generation_time_ms |-> r.generation_time_ms]

\* quantity: int = Field(default=5, ge=1, le=20)
ValidQuantity(q) == QuantityGe <= q /\ q <= QuantityLe

\* ------------------------------------------------------------------ actions

\* POST /flashcards/generate with a body whose quantity is q: the request
\* model rejects it, or the handler awaits generate_flashcards.
EndpointRequest(q) ==
    IF ValidQuantity(q)
    THEN EnterService("endpoint", q)
    ELSE /\ pc = "idle"
         /\ pc' = "responded"
         /\ caller' = "endpoint"
         /\ http' = [status |-> 422]
         /\ UNCHANGED <<config, original_quantity, quantity, attempt, start_time,
                        now, sleep_ms, prompts, outcomes, waits, result, others>>

\* ai_service.generate_flashcards(quantity=q) called by other code.
DirectCall(q) == EnterService("direct", q)

\* asyncio.wait_for gives up after 30 seconds.
LLMTimeout ==
    /\ pc = "calling"
    /\ now' = now + TimeoutMs
    /\ outcomes' = Append(outcomes, [kind |-> "timeout", msg |-> <<>>, value |-> NoneResponse])
    /\ HandleTimeout
    /\ UNCHANGED <<config, caller, original_quantity, start_time, waits, http, others>>

\* chain.ainvoke raises an exception whose str() is msg, after d milliseconds.
LLMRaises(msg, d) ==
    /\ pc = "calling"
    /\ now' = now + d
    /\ outcomes' = Append(outcomes, [kind |-> "raise", msg |-> msg, value |-> NoneResponse])
    /\ HandleException(msg, now + d)
    /\ UNCHANGED <<config, caller, original_quantity, start_time, waits, http, others>>

\* chain.ainvoke returns r after d milliseconds.
LLMReturns(r, d) ==
    /\ pc = "calling"
    /\ now' = now + d
    /\ outcomes' = Append(outcomes, [kind |-> "return", msg |-> <<>>, value |-> r])
    /\ HandleResponse(r, now + d)
    /\ UNCHANGED <<config, caller, original_quantity, start_time, waits, http, others>>

\* asyncio.sleep returns; continue.
SleepEnds ==
    /\ pc = "sleeping"
    /\ now' = now + sleep_ms
    /\ waits' = Append(waits, sleep_ms)
    /\ LoopNext
    /\ UNCHANGED <<config, caller, original_quantity, start_time, outcomes, http, others>>

\* The handler resumes with the dict generate_flashcards returned.
Respond ==
    /\ pc = "returned"
    /\ caller = "endpoint"
    /\ pc' = "responded"
    /\ http' = HandlerResponse(result)
    /\ UNCHANGED <<config, caller, original_quantity, quantity, attempt, start_time,
                   now, sleep_ms, prompts, outcomes, waits, result, others>>

Next ==
    \/ \E q \in Quantities : EndpointRequest(q)
    \/ \E q \in Quantities : DirectCall(q)
    \/ LLMTimeout
    \/ \E msg \in ErrorMessages, d \in CallDurations : LLMRaises(msg, d)
    \/ \E r \in LLMResponses, d \in CallDurations : LLMReturns(r, d)
    \/ SleepEnds
    \/ Respond

Spec == Init /\ [][Next]_vars

\* Every LLM call ends (asyncio.wait_for bounds it) and every sleep ends; the
\* event loop resumes the handler.
Progress ==
    \/ LLMTimeout
    \/ \E msg \in ErrorMessages, d \in CallDurations : LLMRaises(msg, d)
    \/ \E r \in LLMResponses, d \in CallDurations : LLMReturns(r, d)
    \/ SleepEnds
    \/ Respond

FairSpec == Spec /\ WF_vars(Progress)

\* ------------------------------------------------------------ observations
\* What the properties below read off a state.

\* generate_flashcards has returned a dict.
HasResult == "success" \in DOMAIN result

\* A Python str with at least one character.
StrNonEmpty(s) == \E i \in 1..Len(s) : s[i] # ""

\* The LLM's value carries no flashcard.
NoCards(v) == v.is_none \/ ~v.has_flashcards \/ Len(v.flashcards) = 0

GoodOutcome(o) == o.kind = "return" /\ ~NoCards(o.value)
EmptyOutcome(o) == o.kind = "return" /\ NoCards(o.value)
TimeoutOutcome(o) == o.kind = "timeout"
\* An exception whose message speaks of a token or length limit.
TokenOutcome(o) == o.kind = "raise" /\ o.msg \in {MsgLengthLimit, MsgTokens}

LastOutcome == outcomes[Len(outcomes)]

\* All of the call's max_retries + 1 attempts were made and failed.
AllAttemptsFailed ==
    /\ HasResult
    /\ Len(outcomes) = max_retries + 1
    /\ \A i \in 1..Len(outcomes) : ~GoodOutcome(outcomes[i])

\* Attempt i failed and another attempt follows it (or is being waited for).
Retried(i) ==
    \/ Len(prompts) > i
    \/ Len(prompts) = i /\ pc = "sleeping"

\* ------------------------------------------------------------------- claims

\* C1 (as claimed): when all 3 attempts fail, whatever the kind of the last
\* failure, the result has success=false, no flashcards, attempts_made=3, the
\* elapsed time so far, and an error naming the attempt count and the last
\* underlying error.
C1_TerminalFailure ==
    AllAttemptsFailed =>
        /\ result.success = FALSE
        /\ result.flashcards = <<>>
        /\ "attempts_made" \in DOMAIN result
        /\ result.attempts_made = 3
        /\ result.generation_time_ms = now - start_time
        /\ Contains(result.error, <<"3">>)
        /\ LastOutcome.kind = "raise" =>
               Contains(result.error, <<" tentativas: ">> \o LastOutcome.msg)
        /\ LastOutcome.kind = "return" =>
               Contains(result.error, <<" tentativas: ">> \o EmptyResultMessage)

\* C2 (as claimed): whenever success=true is reported, the number of flashcards
\* returned is between 1 and max_flashcards, in the service's result
\* (quantity_generated) and in the endpoint's response (total_generated).
C2_CountWithinMax ==
    /\ (HasResult /\ result.success) =>
           (1 <= result.quantity_generated /\ result.quantity_generated <= max_flashcards)
    /\ ("total_generated" \in DOMAIN http) =>
           (1 <= http.total_generated /\ http.total_generated <= max_flashcards)

\* C3: every result with success=false has an empty flashcards list, a
\* non-empty error string and generation_time_ms >= 0.
C3_FailureShape ==
    (HasResult /\ ~result.success) =>
        /\ result.flashcards = <<>>
        /\ "error" \in DOMAIN result
        /\ StrNonEmpty(result.error)
        /\ result.generation_time_ms >= 0

\* C3 witness: a failure returned after the retries were exhausted by an
\* exception, some time having passed.
C3_Witness ==
    /\ pc = "returned"
    /\ ~result.success
    /\ Len(outcomes) = 3
    /\ LastOutcome.kind = "raise"
    /\ result.generation_time_ms > 0

\* C4: one call invokes the LLM at most max_retries + 1 = 3 times, and never
\* again after an attempt returned a non-empty flashcard list.
C4_RetryBound ==
    /\ Len(prompts) <= max_retries + 1
    /\ Len(outcomes) <= Len(prompts)
    /\ \A i \in 1..Len(outcomes) :
           GoodOutcome(outcomes[i]) =>
               /\ i = Len(prompts)
               /\ pc \in {"returned", "responded"}

\* C4 witness: a third invocation was made and it returned flashcards.
C4_Witness ==
    /\ Len(prompts) = 3
    /\ Len(outcomes) = 3
    /\ GoodOutcome(outcomes[3])

\* A terminal state of the orchestrator: Succeeded or Failed.
Terminal == pc \in {"returned", "responded"} /\ HasResult

\* C5: under fairness of the LLM's answers and of the sleeps, every call that
\* has reached the LLM ends in a terminal state, Succeeded or Failed; a
\* terminal state is never left and its result never changes; there is no
\* endless cycle of attempts and retries, as every retry advances the attempt
\* counter, which stays within max_retries.
C5_Termination ==
    /\ (pc \in {"calling", "sleeping"}) ~> Terminal
    /\ [][(pc = "sleeping" /\ pc' = "calling") =>
              (attempt' = attempt + 1 /\ attempt' <= max_retries)]_vars
    /\ [][Terminal => (Terminal' /\ result' = result)]_vars
    /\ [](Terminal => result.success \in BOOLEAN)

\* C5 witness: a call that slept between attempts has reached a terminal state.
C5_Witness ==
    /\ Terminal
    /\ Len(waits) = 2
    /\ result.success

\* What the degradation policy alone gives after an attempt that asked for q.
Halved(q) == IF q \div 2 >= 3 THEN q \div 2 ELSE 3

\* C6 (as claimed): after an attempt that asked for q > 3 and failed with a
\* token/length-limit error, the next attempt asks for exactly
\* max(3, floor(q/2)).
C6_DegradationExact ==
    \A i \in 1..(Len(prompts) - 1) :
        (TokenOutcome(outcomes[i]) /\ prompts[i] > 3) =>
            prompts[i + 1] = Halved(prompts[i])

\* C6 (amended): after an attempt that asked for q > 3 and failed with a
\* token/length-limit error, the next attempt asks for max(3, floor(q/2)),
\* except that the final (third) attempt asks for 5 when max(3, floor(q/2))
\* exceeds 5; the quantity asked after a degradation is never below 3.
C6_DegradationThenCap ==
    \A i \in 1..(Len(prompts) - 1) :
        (TokenOutcome(outcomes[i]) /\ prompts[i] > 3) =>
            /\ prompts[i + 1] =
                   IF i + 1 = 3 /\ Halved(prompts[i]) > 5 THEN 5 ELSE Halved(prompts[i])
            /\ prompts[i + 1] >= 3

\* C6 witness: 12, then 6, then 3, each after a token/length-limit error.
C6_Witness ==
    /\ prompts = <<12, 6, 3>>
    /\ TokenOutcome(outcomes[1])
    /\ TokenOutcome(outcomes[2])

\* C7: the final (third) attempt asks for at most 5: a quantity carried into
\* it that exceeds 5 becomes 5, any other is unchanged; the first attempt asks
\* for the clamped quantity and the second for the quantity carried into it,
\* whether or not they exceed 5.
C7_LastAttemptCap ==
    /\ [](Len(prompts) = 3 => prompts[3] <= 5)
    /\ [][(pc = "sleeping" /\ pc' = "calling") =>
              prompts'[Len(prompts')] =
                  IF Len(prompts') = 3 /\ quantity > 5 THEN 5 ELSE quantity]_vars
    /\ [][(pc = "idle" /\ pc' = "calling") =>
              /\ prompts' = <<quantity'>>
              /\ (original_quantity' >= min_flashcards /\ original_quantity' <= max_flashcards)
                     => quantity' = original_quantity']_vars

\* C7 witness: 15 was asked twice and the final attempt asked for 5.
C7_Witness == prompts = <<15, 15, 5>>

\* C8: an LLM value that is missing, has no flashcards attribute or has an
\* empty list never gives success=true; before the last attempt it is followed
\* by a retry, on the last attempt by a failure result.
C8_EmptyRejected ==
    /\ \A i \in 1..Len(outcomes) :
           EmptyOutcome(outcomes[i]) =>
               IF i < max_retries + 1
               THEN Retried(i)
               ELSE /\ HasResult
                    /\ ~result.success
                    /\ result.flashcards = <<>>
    /\ (HasResult /\ result.success) => GoodOutcome(LastOutcome)

\* C8 witness: the third attempt returned an empty list and the call failed.
C8_Witness ==
    /\ Len(outcomes) = 3
    /\ outcomes[3].kind = "return"
    /\ outcomes[3].value.has_flashcards
    /\ outcomes[3].value.flashcards = <<>>
    /\ HasResult
    /\ ~result.success

\* C9: a timeout before the last attempt is followed by a retry; when the
\* attempts before the k-th timed out and the k-th returned flashcards the
\* result has success=true and attempts_made=k; attempts_made on success is the
\* number of LLM invocations.
C9_TimeoutRetried ==
    /\ \A i \in 1..Len(outcomes) :
           (TimeoutOutcome(outcomes[i]) /\ i < max_retries + 1) => Retried(i)
    /\ (HasResult /\ result.success) => result.attempts_made = Len(prompts)
    /\ (/\ pc \in {"returned", "responded"}
        /\ Len(outcomes) >= 1
        /\ GoodOutcome(LastOutcome)
        /\ \A i \in 1..(Len(outcomes) - 1) : TimeoutOutcome(outcomes[i]))
       => (HasResult /\ result.success /\ result.attempts_made = Len(outcomes))

\* C9 witness: two timeouts, then flashcards, and attempts_made = 3.
C9_Witness ==
    /\ Len(outcomes) = 3
    /\ TimeoutOutcome(outcomes[1])
    /\ TimeoutOutcome(outcomes[2])
    /\ GoodOutcome(outcomes[3])
    /\ HasResult
    /\ result.success
    /\ result.attempts_made = 3

\* C10: when an attempt returns a non-empty list, the result has success=true,
\* that very list, quantity_generated its length, quantity_requested the
\* quantity the caller passed, and model_used provider/model_name.
C10_TerminalSuccess ==
    (pc \in {"returned", "responded"} /\ Len(outcomes) >= 1 /\ GoodOutcome(LastOutcome)) =>
        /\ HasResult
        /\ result.success
        /\ result.flashcards = LastOutcome.value.flashcards
        /\ result.quantity_generated = Len(LastOutcome.value.flashcards)
        /\ result.quantity_requested = original_quantity
        /\ result.model_used = <<"openai", "/", "gpt-3.5-turbo">>

\* C10 witness: two different cards returned for a request of 100, kept in
\* their order.
C10_Witness ==
    /\ HasResult
    /\ result.success
    /\ Len(result.flashcards) = 2
    /\ result.flashcards[1].front = "Q2"
    /\ result.flashcards[2].front = "Q1"
    /\ result.quantity_requested = 100

\* C11: the quantity of the first attempt is
\* max(min_flashcards, min(q, max_flashcards)) for the quantity q the caller
\* passed; it lies in [min_flashcards, max_flashcards] when min_flashcards <=
\* max_flashcards (100 with max 15 gives 15, 0 with min 1 gives 1) and a
\* quantity already in the range is unchanged.
C11_QuantityClamped ==
    Len(prompts) >= 1 =>
        LET q == original_quantity
            capped == IF q <= max_flashcards THEN q ELSE max_flashcards
            expected == IF capped >= min_flashcards THEN capped ELSE min_flashcards
        IN  /\ prompts[1] = expected
            /\ min_flashcards <= max_flashcards =>
                   (min_flashcards <= prompts[1] /\ prompts[1] <= max_flashcards)
            /\ (min_flashcards <= q /\ q <= max_flashcards) => prompts[1] = q
            /\ (q = 100 /\ max_flashcards = 15) => prompts[1] = 15
            /\ (q = 0 /\ min_flashcards = 1) => prompts[1] = 1

\* C11 witness: 100 was asked with max_flashcards = 15 and the first attempt
\* asks for 15.
C11_Witness ==
    /\ Len(prompts) >= 1
    /\ original_quantity = 100
    /\ max_flashcards = 15
    /\ prompts[1] = 15

\* ---------------------------------- models/request.py: the request validators

\* More blanks than this are not put before or after a topic.
MaxPad == 2

\* Lists of more focus areas than this are not submitted.
MaxFocusLen == 6

\* topic: min_length=3, max_length=100; focus_areas: max_items=5
TopicMinLength == 3
TopicMaxLength == 100
FocusMaxItems == 5

\* Characters str.isspace() and str.split() take as whitespace.
Whitespace == {" ", "\t", "\n"}

DigitChars == {"0","1","2","3","4","5","6","7","8","9"}

\* s.isspace()
IsSpaceStr(s) == Len(s) > 0 /\ \A i \in 1..Len(s) : s[i] \in Whitespace

\* s.isdigit()
IsDigitStr(s) == Len(s) > 0 /\ \A i \in 1..Len(s) : s[i] \in DigitChars

\* s.lstrip(), s.rstrip(), s.strip()
RECURSIVE LStrip(_)
LStrip(s) == IF s # <<>> /\ Head(s) \in Whitespace THEN LStrip(Tail(s)) ELSE s
RECURSIVE RStrip(_)
RStrip(s) ==
    IF s # <<>> /\ s[Len(s)] \in Whitespace THEN RStrip(SubSeq(s, 1, Len(s) - 1)) ELSE s
Strip(s) == RStrip(LStrip(s))

\* The length of the run of non-whitespace characters s starts with.
RECURSIVE WordLen(_)
WordLen(s) == IF s = <<>> \/ Head(s) \in Whitespace THEN 0 ELSE 1 + WordLen(Tail(s))

\* s.split()
RECURSIVE Split(_)
Split(s) ==
    IF s = <<>> THEN <<>>
    ELSE IF Head(s) \in Whitespace THEN Split(Tail(s))
    ELSE <<SubSeq(s, 1, WordLen(s))>> \o Split(SubSeq(s, WordLen(s) + 1, Len(s)))

\* sep.join(words)
RECURSIVE Join(_, _)
Join(words, sep) ==
    IF words = <<>> THEN <<>>
    ELSE IF Len(words) = 1 THEN words[1]
    ELSE words[1] \o sep \o Join(Tail(words), sep)

\* Mutant: the ends trimmed, the inner whitespace kept.
NormalizeTopicStripOnly(v) == Strip(v)

\* v = ' '.join(v.split())
NormalizeTopic(v) == Join(Split(v), <<" ">>)

\* Mutant: the test for a topic of digits left out.
ValidateTopicNoDigitTest(v) ==
    IF v = <<>> \/ IsSpaceStr(v)
    THEN [ok |-> FALSE, error |-> "Tópico não pode estar vazio", value |-> <<>>]
    ELSE [ok |-> TRUE, error |-> "", value |-> NormalizeTopic(v)]

\* validate_topic(cls, v): the value returned, or the ValueError raised
ValidateTopic(v) ==
    IF v = <<>> \/ IsSpaceStr(v)
    THEN [ok |-> FALSE, error |-> "Tópico não pode estar vazio", value |-> <<>>]
    ELSE IF IsDigitStr(NormalizeTopic(v))
         THEN [ok |-> FALSE,
               error |-> "Tópico deve conter texto, não apenas números",
               value |-> <<>>]
         ELSE [ok |-> TRUE, error |-> "", value |-> NormalizeTopic(v)]

\* The topic field: the Field's length limits on the value received, then the
\* validator.
TopicField(raw) ==
    IF Len(raw) < TopicMinLength
    THEN [ok |-> FALSE, error |-> "min_length", value |-> <<>>]
    ELSE IF Len(raw) > TopicMaxLength
         THEN [ok |-> FALSE, error |-> "max_length", value |-> <<>>]
         ELSE ValidateTopic(raw)

\* Mutant: the entries kept as they came.
FocusSetUntrimmed(v) ==
    { v[i] : i \in { j \in 1..Len(v) : v[j] # <<>> /\ Strip(v[j]) # <<>> } }

\* set([area.strip() for area in v if area and area.strip()])
FocusSet(v) ==
    { Strip(v[i]) : i \in { j \in 1..Len(v) : v[j] # <<>> /\ Strip(v[j]) # <<>> } }

\* list(S): the elements of a set, each once, in any order.
Orderings(S) ==
    { f \in [1..Cardinality(S) -> S] : \A x \in S : \E i \in 1..Cardinality(S) : f[i] = x }

\* validate_focus_areas(cls, v): the lists it may return
ValidateFocusAreas(v) == IF v # <<>> THEN Orderings(FocusSet(v)) ELSE {v}

\* The focus_areas field: max_items on the list received, then the validator.
FocusField(raw) ==
    IF Len(raw) > FocusMaxItems
    THEN [ok |-> FALSE, values |-> {<<>>}]
    ELSE [ok |-> TRUE, values |-> ValidateFocusAreas(raw)]

\* n times the character c
Rep(c, n) == [i \in 1..n |-> c]

\* Topics without blanks around them.
TopicBodies ==
    { <<>>, <<"a">>, <<"a","b">>, <<"a","b","c">>,
      <<"1","2","3">>, <<"1","2","3","4","5">>, <<"1","a">>, <<"1"," ","2">>,
      <<"a","\t","\n","b">>,
      <<"G","r","a","p","h"," "," "," ","T","h","e","o","r","y">> }
        \cup { Rep("x", n) : n \in (TopicMaxLength - 2)..(TopicMaxLength + 1) }

\* The topics a client sends.
RawTopics ==
    { Rep(" ", l) \o b \o Rep(" ", r) : l \in 0..MaxPad, r \in 0..MaxPad, b \in TopicBodies }

FocusEntries == { <<"a">>, <<" ","a"," ">>, <<"b">>, <<" ">>, <<>> }

\* The focus_areas lists a client sends.
RawFocusLists == UNION { [1..n -> FocusEntries] : n \in 0..MaxFocusLen }

GoodTopic == <<"a","b","c">>

\* A request body: its topic varies, or its focus_areas.
RequestBodies ==
    { <<t, <<>>>> : t \in RawTopics } \cup { <<GoodTopic, f>> : f \in RawFocusLists }

\* FlashcardAdvancedGenerationRequest(topic=t, focus_areas=f): the model is
\* built when both fields validate, and a validation error is raised otherwise.
SubmitRequest(t, f) ==
    /\ request.pc = "none"
    /\ LET tf == TopicField(t)
           ff == FocusField(f)
       IN  \E fa \in ff.values :
               request' =
                   [pc |-> "validated",
                    raw_topic |-> t,
                    raw_focus |-> f,
                    accepted |-> tf.ok /\ ff.ok,
                    topic_error |-> tf.error,
                    topic |-> IF tf.ok /\ ff.ok THEN tf.value ELSE <<>>,
                    focus_areas |-> IF tf.ok /\ ff.ok THEN fa ELSE <<>>,
                    topic_arg |-> <<>>,
                    focus_arg |-> <<>>]
    /\ UNCHANGED <<config, pc, caller, original_quantity, quantity, attempt, start_time,
                   now, sleep_ms, prompts, outcomes, waits, result, http, pdf,
                   cancelled, focused>>

\* main.py: the handler passes request.topic and request.focus_areas to
\* ai_service.generate_flashcards, which puts them in the prompt.
PassToService ==
    /\ request.pc = "validated"
    /\ request.accepted
    /\ request' = [request EXCEPT !.pc = "passed",
                                  !.topic_arg = request.topic,
                                  !.focus_arg = request.focus_areas]
    /\ UNCHANGED <<config, pc, caller, original_quantity, quantity, attempt, start_time,
                   now, sleep_ms, prompts, outcomes, waits, result, http, pdf,
                   cancelled, focused>>

\* validate_topic applied to v.
CallValidateTopic(v) ==
    /\ request.pc = "none"
    /\ request' = [pc |-> "topic_checked", raw_topic |-> v, outcome |-> ValidateTopic(v)]
    /\ UNCHANGED <<config, pc, caller, original_quantity, quantity, attempt, start_time,
                   now, sleep_ms, prompts, outcomes, waits, result, http, pdf,
                   cancelled, focused>>

ValidationInit ==
    /\ max_flashcards = 15
    /\ min_flashcards = 1
    /\ structured_llm = TRUE
    /\ OrchestratorIdle
    /\ request = NoRequest
    /\ pdf = NoPdf
    /\ focused = NoFocused

\* A request arrives only while none is being handled.
ValidationNext ==
    \/ request.pc = "none" /\ \E b \in RequestBodies : SubmitRequest(b[1], b[2])
    \/ PassToService
    \/ request.pc = "none" /\ \E v \in RawTopics : CallValidateTopic(v)

ValidationSpec == ValidationInit /\ [][ValidationNext]_vars

\* ---------------------------------------------- the request model: claims

\* The request model has been validated: built, or rejected.
Validated == request.pc \in {"validated", "passed"}

\* The characters of s that are not whitespace, in order.
NonSpace(s) == SelectSeq(s, LAMBDA c : c \notin Whitespace)

\* The number of words of s.
WordCount(s) ==
    Cardinality({ i \in 1..Len(s) :
                    s[i] \notin Whitespace /\ (i = 1 \/ s[i - 1] \in Whitespace) })

\* s has no whitespace at its ends.
Trimmed(s) == s = <<>> \/ (s[1] \notin Whitespace /\ s[Len(s)] \notin Whitespace)

\* The whitespace-collapsed form of s consists of digits only.
CollapsesToDigits(s) ==
    /\ NonSpace(s) # <<>>
    /\ \A i \in 1..Len(NonSpace(s)) : NonSpace(s)[i] \in DigitChars
    /\ WordCount(s) = 1

\* C12 (as claimed): every accepted topic has 3 to 100 characters after
\* whitespace normalization, and a raw topic is accepted if and only if its
\* whitespace-collapsed form has 3 to 100 characters and is neither blank nor
\* all digits.
C12_AcceptedTopicLength ==
    Validated =>
        /\ request.accepted => (3 <= Len(request.topic) /\ Len(request.topic) <= 100)
        /\ Len(request.raw_focus) <= 5 =>
               (request.accepted <=>
                   /\ 3 <= Len(NormalizeTopic(request.raw_topic))
                   /\ Len(NormalizeTopic(request.raw_topic)) <= 100
                   /\ ~CollapsesToDigits(request.raw_topic))

\* C13: validate_topic raises for every topic that is empty or all whitespace
\* and for every topic whose whitespace-collapsed form is all digits; it
\* accepts every topic with a character that is neither a digit nor
\* whitespace; the request model rejects the topics validate_topic rejects.
C13_TopicRejected ==
    /\ request.pc = "topic_checked" =>
           /\ NonSpace(request.raw_topic) = <<>> => ~request.outcome.ok
           /\ CollapsesToDigits(request.raw_topic) => ~request.outcome.ok
           /\ (\E i \in 1..Len(request.raw_topic) :
                   request.raw_topic[i] \notin (Whitespace \cup DigitChars))
              => request.outcome.ok
    /\ (/\ Validated
        /\ (NonSpace(request.raw_topic) = <<>> \/ CollapsesToDigits(request.raw_topic)))
       => ~request.accepted

\* C13 witness: validate_topic has rejected "  123  ".
C13_Witness ==
    /\ request.pc = "topic_checked"
    /\ request.raw_topic = <<" "," ","1","2","3"," "," ">>
    /\ ~request.outcome.ok
    /\ request.outcome.error = "Tópico deve conter texto, não apenas números"

\* C14: the topic stored in an accepted request, which is the one passed to
\* the prompt builder, has no whitespace at its ends and single spaces between
\* its words, keeps the words and their order, and is left unchanged by a
\* second normalization ("  Graph   Theory  " becomes "Graph Theory").
C14_TopicNormalized ==
    /\ (Validated /\ request.accepted) =>
           /\ Trimmed(request.topic)
           /\ \A i \in 1..Len(request.topic) :
                  request.topic[i] \in Whitespace =>
                      (request.topic[i] = " " /\ request.topic[i + 1] \notin Whitespace)
           /\ NonSpace(request.topic) = NonSpace(request.raw_topic)
           /\ WordCount(request.topic) = WordCount(request.raw_topic)
           /\ NormalizeTopic(request.topic) = request.topic
           /\ request.raw_topic =
                  <<" "," ","G","r","a","p","h"," "," "," ","T","h","e","o","r","y"," "," ">>
                  => request.topic = <<"G","r","a","p","h"," ","T","h","e","o","r","y">>
    /\ request.pc = "passed" => request.topic_arg = request.topic

\* C14 witness: "  Graph   Theory  " was accepted and "Graph Theory" passed on.
C14_Witness ==
    /\ request.pc = "passed"
    /\ request.raw_topic =
           <<" "," ","G","r","a","p","h"," "," "," ","T","h","e","o","r","y"," "," ">>
    /\ request.topic_arg = <<"G","r","a","p","h"," ","T","h","e","o","r","y">>

\* The distinct trimmed non-blank entries of a list.
DistinctTrimmed(l) ==
    { Strip(l[i]) : i \in { j \in 1..Len(l) : NonSpace(l[j]) # <<>> } }

\* C15: the validated focus_areas holds exactly the distinct trimmed
\* non-blank entries of the list received, each once, none blank or with
\* whitespace at its ends, and at most 5 of them (["a", "a", " ", "b"] gives
\* {"a", "b"}).
C15_FocusAreasNormalized ==
    (Validated /\ request.accepted) =>
        /\ { request.focus_areas[i] : i \in 1..Len(request.focus_areas) }
               = DistinctTrimmed(request.raw_focus)
        /\ Len(request.focus_areas) = Cardinality(DistinctTrimmed(request.raw_focus))
        /\ Len(request.focus_areas) <= 5
        /\ \A i \in 1..Len(request.focus_areas) :
               /\ request.focus_areas[i] # <<>>
               /\ Trimmed(request.focus_areas[i])
        /\ request.raw_focus = << <<"a">>, <<"a">>, <<" ">>, <<"b">> >> =>
               { request.focus_areas[i] : i \in 1..Len(request.focus_areas) }
                   = { <<"a">>, <<"b">> }

\* C15 witness: ["a", " a ", " ", "b", ""] was validated to "b", "a".
C15_Witness ==
    /\ Validated
    /\ request.accepted
    /\ request.raw_focus = << <<"a">>, <<" ","a"," ">>, <<" ">>, <<"b">>, <<>> >>
    /\ request.focus_areas = << <<"b">>, <<"a">> >>

(***************************************************************************)
(* PDF ingestion: _load_pdf_content of the two PDF services.  The file     *)
(* system is one flag, whether the scratch file is on disk; the loader and *)
(* the splitter are library calls that return or raise.                    *)
(***************************************************************************)

\* Most pages the loader returns.
MaxPages == 2

\* Most chunks the splitter returns.
MaxChunks == 3

\* len(documents[0].page_content) above which one page is split.
FlashcardSplitThreshold == 6000
RagSplitThreshold == 8000

PdfServices == {"flashcard_service", "rag_service"}

\* Lengths of the first page, on both sides of the two thresholds.
PageLengths == {100, 6001, 8001}

SplitThreshold(s) ==
    IF s = "flashcard_service" THEN FlashcardSplitThreshold ELSE RagSplitThreshold

\* The test before the splitter, for n pages with a first page of length len.
NeedsSplit(s, n, len) ==
    n > 1 \/ (n > 0 /\ len > SplitThreshold(s))

\* documents[0] on an empty list is an IndexError; the flashcard service
\* tests `documents and ...` first and does not read it.
FirstPageRaises(s, n) == s = "rag_service" /\ n = 0

\* Everything but the scratch file's call.
notPdf ==
    <<config, pc, caller, original_quantity, quantity, attempt, start_time,
      now, sleep_ms, prompts, outcomes, waits, result, http, request,
      cancelled, focused>>

\* tempfile.NamedTemporaryFile(delete=False): the file is on disk from here.
CreateTempFile(s) ==
    /\ pdf.pc = "none"
    /\ pdf' = [pc |-> "created", service |-> s, exists |-> TRUE, docs |-> 0,
               first_len |-> 0, chunks |-> 0, outcome |-> "none", error |-> ""]
    /\ UNCHANGED notPdf

\* temp_file.write(pdf_bytes) and the end of the with block; the try begins.
WriteBytes ==
    /\ pdf.pc = "created"
    /\ pdf' = [pdf EXCEPT !.pc = "written"]
    /\ UNCHANGED notPdf

\* write raises inside the with block: the block closes the file, which
\* delete=False keeps, and the exception leaves the function before the try.
WriteRaises ==
    /\ pdf.pc = "created"
    /\ pdf' = [pdf EXCEPT !.pc = "done", !.outcome = "raised", !.error = "write"]
    /\ UNCHANGED notPdf

\* loader.load() returns n pages, the first of length len.
LoaderReturns(n, len) ==
    /\ pdf.pc = "written"
    /\ pdf' = [pdf EXCEPT !.pc = "loaded", !.docs = n,
                          !.first_len = IF n = 0 THEN 0 ELSE len]
    /\ UNCHANGED notPdf

\* loader.load() raises: control goes to the finally block.
LoaderRaises ==
    /\ pdf.pc = "written"
    /\ pdf' = [pdf EXCEPT !.pc = "finally", !.outcome = "raised", !.error = "parse"]
    /\ UNCHANGED notPdf

\* The if before the splitter.
SplitTest ==
    /\ pdf.pc = "loaded"
    /\ pdf' = IF FirstPageRaises(pdf.service, pdf.docs)
                THEN [pdf EXCEPT !.pc = "finally", !.outcome = "raised",
                                 !.error = "IndexError"]
              ELSE IF NeedsSplit(pdf.service, pdf.docs, pdf.first_len)
                THEN [pdf EXCEPT !.pc = "splitting"]
              ELSE [pdf EXCEPT !.pc = "finally", !.chunks = pdf.docs,
                               !.outcome = "returned"]
    /\ UNCHANGED notPdf

\* text_splitter.split_documents returns k chunks.
SplitterReturns(k) ==
    /\ pdf.pc = "splitting"
    /\ pdf' = [pdf EXCEPT !.pc = "finally", !.chunks = k, !.outcome = "returned"]
    /\ UNCHANGED notPdf

SplitterRaises ==
    /\ pdf.pc = "splitting"
    /\ pdf' = [pdf EXCEPT !.pc = "finally", !.outcome = "raised", !.error = "split"]
    /\ UNCHANGED notPdf

\* finally: os.unlink(temp_path), then the return or the raise goes through.
Finally ==
    /\ pdf.pc = "finally"
    /\ pdf' = [pdf EXCEPT !.pc = "done", !.exists = FALSE]
    /\ UNCHANGED notPdf

PdfInit ==
    /\ max_flashcards = 15
    /\ min_flashcards = 1
    /\ structured_llm = TRUE
    /\ OrchestratorIdle
    /\ request = NoRequest
    /\ pdf = NoPdf
    /\ focused = NoFocused

PdfNext ==
    \/ \E s \in PdfServices : CreateTempFile(s)
    \/ WriteBytes
    \/ WriteRaises
    \/ \E n \in 0..MaxPages, len \in PageLengths : LoaderReturns(n, len)
    \/ LoaderRaises
    \/ SplitTest
    \/ \E k \in 0..MaxChunks : SplitterReturns(k)
    \/ SplitterRaises
    \/ Finally

PdfSpec == PdfInit /\ [][PdfNext]_vars

\* C16: once _load_pdf_content of either service has returned or raised,
\* the temporary file it created is not on disk.
C16_ScratchFileRemoved ==
    pdf.pc = "done" => ~pdf.exists

(***************************************************************************)
(* Cancellation.  The event loop cancels the task that runs the handler    *)
(* (the client went away): asyncio.CancelledError is raised at the await   *)
(* the task is suspended in, which is asyncio.wait_for while an attempt is *)
(* in flight and asyncio.sleep between attempts.                           *)
(***************************************************************************)

ExceptionClasses == {"Exception", "TimeoutError", "CancelledError"}

\* Mutant: a clause that catches every BaseException.
CatchesBaseException(e) == e \in ExceptionClasses

\* `except Exception`: asyncio.CancelledError derives from BaseException and
\* passes through it, as it passes through `except asyncio.TimeoutError`.
ExceptExceptionCatches(e) == e \in ExceptionClasses \ {"CancelledError"}

\* str(asyncio.CancelledError())
MsgCancelled == <<>>

\* CancelledError reaches the try of the loop from wait_for, or the except
\* clause the sleep stands in, which no clause of the same try covers.  What
\* no clause catches leaves generate_flashcards, and the handler, whose
\* clauses are `except HTTPException` and `except Exception`.
Cancel ==
    /\ pc \in {"calling", "sleeping"}
    /\ cancelled' = TRUE
    /\ IF pc = "calling" /\ ExceptExceptionCatches("CancelledError")
       THEN /\ HandleException(MsgCancelled, now)
            /\ outcomes' = Append(outcomes, [kind |-> "raise", msg |-> MsgCancelled,
                                             value |-> NoneResponse])
       ELSE /\ pc' = "cancelled"
            /\ UNCHANGED <<quantity, attempt, prompts, result, sleep_ms, outcomes>>
    /\ UNCHANGED <<config, caller, original_quantity, start_time, now, waits,
                   http, request, pdf, focused>>

CancelNext == Next \/ Cancel

CancelSpec == Init /\ [][CancelNext]_vars

\* C17: once the request is cancelled during an attempt or a sleep, the call
\* is over: no prompt is sent afterwards, nothing else moves, and there is
\* neither a result dict nor a response.
C17_CancelAborts ==
    /\ [](cancelled => (pc = "cancelled" /\ result = NoDict /\ http = NoDict))
    /\ [][cancelled => (prompts' = prompts /\ outcomes' = outcomes)]_vars
    /\ [][cancelled' /\ ~cancelled =>
            (prompts' = prompts /\ outcomes' = outcomes /\ waits' = waits)]_vars

\* A call cancelled while its last attempt is in flight.
C17_Witness ==
    /\ cancelled
    /\ pc = "cancelled"
    /\ Len(prompts) = max_retries + 1
    /\ Len(outcomes) = max_retries

(***************************************************************************)
(* The handler's conversion of the flashcards and the waits of the loop    *)
(***************************************************************************)

\* The orchestrator returned success with a flashcard the handler's
\* conversion raises on.
AssemblerFails ==
    /\ HasResult
    /\ result.success
    /\ FirstUnmappable(result.flashcards) # 0

\* C18: when the orchestrator succeeded and the conversion of one of its
\* flashcards raises, the handler answers 500 without any flashcards, and
\* answering sends no prompt to the LLM, nor does anything after the answer.
C18_AssemblerErrorNotRetried ==
    /\ []((pc = "responded" /\ AssemblerFails) =>
            (/\ http.status = 500
             /\ "flashcards" \notin DOMAIN http
             /\ "total_generated" \notin DOMAIN http))
    /\ [][(AssemblerFails /\ pc \in {"returned", "responded"}) =>
            (/\ prompts' = prompts
             /\ outcomes' = outcomes
             /\ pc' \notin {"calling", "sleeping"})]_vars

\* The first flashcard converts and the second does not: the answer is 500.
C18_Witness ==
    /\ pc = "responded"
    /\ AssemblerFails
    /\ FirstUnmappable(result.flashcards) = 2
    /\ http.status = 500

\* The wait the claim gives for the failed attempt i, in milliseconds.
ClaimedWait(i) ==
    IF TokenOutcome(outcomes[i]) /\ prompts[i] > 3 THEN 500 ELSE 1000

\* C19: the orchestrator waits exactly once between two consecutive
\* attempts, 0.5 s after a token or length limit error that reduced the
\* quantity and 1 s after any other failed attempt that is not the last;
\* it does not wait after the last attempt or after a success.
C19_BackoffSchedule ==
    /\ [](Len(prompts) > 0 =>
            /\ Len(waits) = Len(prompts) - 1
            /\ \A i \in 1..Len(waits) :
                  /\ waits[i] = ClaimedWait(i)
                  /\ ~GoodOutcome(outcomes[i])
                  /\ waits[i] = 500 => prompts[i + 1] < prompts[i]
            /\ pc = "sleeping" =>
                  /\ Len(outcomes) = Len(prompts)
                  /\ sleep_ms = ClaimedWait(Len(outcomes)))
    /\ [][pc' = "sleeping" =>
            (/\ pc = "calling"
             /\ attempt < max_retries
             /\ ~GoodOutcome(outcomes'[Len(outcomes')]))]_vars
    /\ [][(pc = "calling" /\ pc' \notin {"calling", "sleeping"}) =>
            (GoodOutcome(outcomes'[Len(outcomes')]) \/ attempt = max_retries)]_vars

\* A call that waited 0.5 s after a reduction, then 1 s, and has ended.
C19_Witness ==
    /\ HasResult
    /\ waits = <<500, 1000>>
    /\ TokenOutcome(outcomes[1])
    /\ prompts[2] < prompts[1]

\* C20: the return after the loop is never taken: whatever the LLM does,
\* the dict generate_flashcards returns is not the fallback one.
C20_FallbackUnreachable ==
    HasResult => result # FallbackResult

(***************************************************************************)
(* The quantity from attempt to attempt                                    *)
(***************************************************************************)

\* C21: when min_flashcards <= max_flashcards, every quantity asked of the
\* LLM lies between min_flashcards and max_flashcards, after a halving and
\* on the last attempt too.
C21_QuantityWithinRange ==
    min_flashcards <= max_flashcards =>
        \A i \in 1..Len(prompts) :
            min_flashcards <= prompts[i] /\ prompts[i] <= max_flashcards

\* The quantity the claim gives for the attempt after the failed attempt i.
ClaimedNextQuantity(i) ==
    LET kept == IF TokenOutcome(outcomes[i]) /\ prompts[i] > 3
                THEN Halved(prompts[i])
                ELSE prompts[i]
    IN  IF i + 1 = max_retries + 1 /\ kept > 5 THEN 5 ELSE kept

\* C22: within one call the quantity asked of the LLM never grows and never
\* exceeds the clamped initial quantity; it changes only by a token or
\* length limit halving or by the cap of the last attempt, so any other
\* failure of the first attempt leaves the second attempt's quantity as it
\* was.
C22_QuantityNonIncreasing ==
    /\ \A i \in 1..Len(prompts) :
          prompts[i] <= Max(min_flashcards, Min(original_quantity, max_flashcards))
    /\ \A i \in 1..(Len(prompts) - 1) :
          /\ prompts[i + 1] <= prompts[i]
          /\ prompts[i + 1] = ClaimedNextQuantity(i)
          /\ (i + 1 < max_retries + 1 /\ ~TokenOutcome(outcomes[i])) =>
                prompts[i + 1] = prompts[i]

\* A timeout, then an empty result, then the last attempt: 12, 12 and 5.
C22_Witness ==
    /\ prompts = <<12, 12, 5>>
    /\ TimeoutOutcome(outcomes[1])
    /\ EmptyOutcome(outcomes[2])

(***************************************************************************)
(* generate_difficulty_focused of the PDF flashcard service: the split of  *)
(* self.max_flashcards over three difficulties.  The dict is a function    *)
(* on the keys it has.                                                     *)
(***************************************************************************)

\* Largest max_flashcards a service is built with.
MaxFocusedCards == 6

\* difficulty_distribution.get("easy", 30), .get("medium", 50)
DefaultEasy == 30
DefaultMedium == 50

\* difficulty_distribution = {"easy": 30, "medium": 50, "hard": 20}
DefaultDistribution == [easy |-> 30, medium |-> 50, hard |-> 20]

DistributionKeys == {"easy", "medium", "hard"}

Percentages == {0, 30, 33, 50, 60, 100}

\* The argument: None, or a dict with some of the keys.
NoneDistribution == [is_none |-> TRUE, items |-> NoDict]

DistributionArgs ==
    {NoneDistribution} \cup
    { [is_none |-> FALSE, items |-> d] :
        d \in UNION { [K -> Percentages] : K \in SUBSET DistributionKeys } }

\* dict.get(k, default)
Get(d, k, default) == IF k \in DOMAIN d THEN d[k] ELSE default

\* int(n / 100): the quotient cut towards zero.
IntOfQuotient(n, d) == IF n >= 0 THEN n \div d ELSE -((-n) \div d)

\* int(self.max_flashcards * percent / 100)
ShareOf(m, percent) == IntOfQuotient(m * percent, 100)

\* str() of an int, as the f-string puts it in the prompt.
SignedStr(n) == IF n < 0 THEN <<"-">> \o IntStr(-n) ELSE IntStr(n)

\* The f-string custom_prompt.
FocusedPrompt(e, m, h, total) ==
    <<"Gere flashcards com esta distribuição de dificuldade: ">> \o
    SignedStr(e) \o <<" fáceis (conceitos básicos e definições), ">> \o
    SignedStr(m) \o <<" médios (aplicações e relações), ">> \o
    SignedStr(h) \o <<" difíceis (análise crítica e síntese). ">> \o
    <<"Total de ">> \o SignedStr(total) \o <<" flashcards.">>

\* generate_difficulty_focused up to the f-string, on a service built with
\* max_flashcards = m.
DifficultyFocused(m, arg) ==
    /\ focused.pc = "none"
    /\ LET d == IF arg.is_none THEN DefaultDistribution ELSE arg.items
           e == ShareOf(m, Get(d, "easy", DefaultEasy))
           md == ShareOf(m, Get(d, "medium", DefaultMedium))
           h == m - e - md
       IN  focused' = [pc |-> "computed",
                       max_flashcards |-> m,
                       distribution |-> d,
                       easy_cards |-> e,
                       medium_cards |-> md,
                       hard_cards |-> h,
                       custom_prompt |-> FocusedPrompt(e, md, h, m),
                       passed |-> <<>>]
    /\ UNCHANGED <<config, pc, caller, original_quantity, quantity, attempt,
                   start_time, now, sleep_ms, prompts, outcomes, waits, result,
                   http, request, pdf, cancelled>>

\* return self.generate_flashcards(pdf_bytes, filename, custom_prompt)
PassCustomPrompt ==
    /\ focused.pc = "computed"
    /\ focused' = [focused EXCEPT !.pc = "passed", !.passed = focused.custom_prompt]
    /\ UNCHANGED <<config, pc, caller, original_quantity, quantity, attempt,
                   start_time, now, sleep_ms, prompts, outcomes, waits, result,
                   http, request, pdf, cancelled>>

FocusedInit ==
    /\ max_flashcards = 15
    /\ min_flashcards = 1
    /\ structured_llm = TRUE
    /\ OrchestratorIdle
    /\ request = NoRequest
    /\ pdf = NoPdf
    /\ focused = NoFocused

FocusedNext ==
    \/ \E m \in 0..MaxFocusedCards, arg \in DistributionArgs :
           DifficultyFocused(m, arg)
    \/ PassCustomPrompt

FocusedSpec == FocusedInit /\ [][FocusedNext]_vars

\* The percentage the split uses for key k.
UsedPercent(k, default) == Get(focused.distribution, k, default)

\* C23: for max_flashcards >= 0 and percentages >= 0, the three counts in
\* the prompt are each >= 0 and sum to max_flashcards, the easy and medium
\* ones being the floors of their percentages of max_flashcards.
C23_DifficultySplit ==
    focused.pc \in {"computed", "passed"} =>
        /\ focused.easy_cards >= 0
        /\ focused.medium_cards >= 0
        /\ focused.hard_cards >= 0
        /\ focused.easy_cards + focused.medium_cards + focused.hard_cards
              = focused.max_flashcards
        /\ focused.easy_cards =
              (focused.max_flashcards * UsedPercent("easy", 30)) \div 100
        /\ focused.medium_cards =
              (focused.max_flashcards * UsedPercent("medium", 50)) \div 100

====
